---- MODULE Spec2Model ----
(***************************************************************************)
(* State-machine model of the PesaLink bulk account validator:             *)
(*   BatchProcessor.process / process_batch   (app/core/processor.py)      *)
(*   AccountValidator                          (app/core/validator.py)      *)
(*   PesaLinkClient                            (app/api/pesalink_client.py) *)
(*   Batch / BatchValidationResult             (app/models/batch.py)        *)
(***************************************************************************)
EXTENDS Integers, Sequences, FiniteSets, Bags, TLC

(* ----------------------------- bounds ---------------------------------- *)
\* longest input list handed to process
MaxRecords == 2
\* largest max_retries tried on a single validate_account call
MaxRetriesBound == 3
\* longest record sequence of a batch handed to Batch.split on its own
MaxSplit == 5

(* ----------------------- program constants ----------------------------- *)
MAX_BATCH_SIZE == 1000
WORKER_THREADS == 10
MAX_RETRIES == 3
RETRY_DELAY == 2
ENABLE_PARALLEL_PROCESSING == TRUE

\* Python's None
None == "<None>"

\* a JSON null: the value of a key that is present in a body without a value
Null == "<null>"

\* what dict.get gives for a key of a decoded body: None for a JSON null
JsonValue(v) == IF v = Null THEN None ELSE v

\* values that are not str: json.load gives an int for a number, and
\* Account.from_dict keeps it as it is
IntZero == "<int 0>"
IntNumber == "<int 12345>"

\* isinstance(x, str)
IsStr(x) == x \notin {None, IntZero, IntNumber}

\* `not x` for the values of the model
Falsy(x) == x = None \/ x = "" \/ x = IntZero

Min(a, b) == IF a <= b THEN a ELSE b

RECURSIVE Pow2(_)
Pow2(n) == IF n <= 0 THEN 1 ELSE 2 * Pow2(n - 1)

RECURSIVE SeqToBag(_)
SeqToBag(s) == IF s = <<>> THEN EmptyBag ELSE SetToBag({Head(s)}) (+) SeqToBag(Tail(s))

(* ------------------------------ Account -------------------------------- *)
Account(number, bank, ref) ==
    [account_number |-> number, bank_code |-> bank, reference_id |-> ref]

\* the records the input lists are drawn from
SampleAccounts ==
    { Account("1234567890", "01", "REF1"),
      Account("", "01", "REF2"),
      Account("1234567890", None, "REF3") }

RECURSIVE SeqsUpTo(_, _)
SeqsUpTo(S, n) ==
    IF n = 0 THEN {<<>>}
    ELSE LET shorter == SeqsUpTo(S, n - 1)
         IN  shorter \cup {Append(s, x) : s \in {t \in shorter : Len(t) = n - 1}, x \in S}

(* -------------------------- ValidationResult --------------------------- *)
VALID == "valid"
INVALID == "invalid"
ERROR == "error"
PENDING == "pending"

\* account is the position of the Account object in the input list (its identity)
ValidationResult(account, status, validated_name, bank_name, error_code, error_message) ==
    [account |-> account, status |-> status, validated_name |-> validated_name,
     bank_name |-> bank_name, error_code |-> error_code, error_message |-> error_message]


(* ------------------------------- str ----------------------------------- *)
\* The str values that reach a function which looks inside a string, and the
\* characters each of them is made of.
SampleMessages ==
    { "account not found", "Account Not Found", "ACCOUNT CLOSED", "bank not found",
      "Unknown BANK", "bank account missing", "not found", "",
      "acount bnk", "Invalid API key", "Unknown API error", "HTTPError" }

Chars(s) ==
    CASE s = "account" -> <<"a", "c", "c", "o", "u", "n", "t">>
      [] s = "bank" -> <<"b", "a", "n", "k">>
      [] s = "account not found" ->
           <<"a", "c", "c", "o", "u", "n", "t", " ", "n", "o", "t", " ", "f", "o",
             "u", "n", "d">>
      [] s = "Account Not Found" ->
           <<"A", "c", "c", "o", "u", "n", "t", " ", "N", "o", "t", " ", "F", "o",
             "u", "n", "d">>
      [] s = "ACCOUNT CLOSED" ->
           <<"A", "C", "C", "O", "U", "N", "T", " ", "C", "L", "O", "S", "E", "D">>
      [] s = "bank not found" ->
           <<"b", "a", "n", "k", " ", "n", "o", "t", " ", "f", "o", "u", "n", "d">>
      [] s = "Unknown BANK" ->
           <<"U", "n", "k", "n", "o", "w", "n", " ", "B", "A", "N", "K">>
      [] s = "bank account missing" ->
           <<"b", "a", "n", "k", " ", "a", "c", "c", "o", "u", "n", "t", " ", "m",
             "i", "s", "s", "i", "n", "g">>
      [] s = "not found" ->
           <<"n", "o", "t", " ", "f", "o", "u", "n", "d">>
      [] s = "" ->
           <<>>
      [] s = "acount bnk" ->
           <<"a", "c", "o", "u", "n", "t", " ", "b", "n", "k">>
      [] s = "Invalid API key" ->
           <<"I", "n", "v", "a", "l", "i", "d", " ", "A", "P", "I", " ", "k", "e", "y">>
      [] s = "Unknown API error" ->
           <<"U", "n", "k", "n", "o", "w", "n", " ", "A", "P", "I", " ", "e", "r",
             "r", "o", "r">>
      [] s = "HTTPError" ->
           <<"H", "T", "T", "P", "E", "r", "r", "o", "r">>

UpperCase ==
    << "A", "B", "C", "D", "E", "F", "G", "H", "I", "J", "K", "L", "M",
       "N", "O", "P", "Q", "R", "S", "T", "U", "V", "W", "X", "Y", "Z" >>

LowerCase ==
    << "a", "b", "c", "d", "e", "f", "g", "h", "i", "j", "k", "l", "m",
       "n", "o", "p", "q", "r", "s", "t", "u", "v", "w", "x", "y", "z" >>

\* str.lower(), on the characters of a string
lower(cs) ==
    [i \in 1..Len(cs) |->
        IF \E u \in 1..Len(UpperCase) : UpperCase[u] = cs[i]
        THEN LowerCase[CHOOSE u \in 1..Len(UpperCase) : UpperCase[u] = cs[i]]
        ELSE cs[i]]

\* `sub in cs` for two strings given by their characters
Contains(sub, cs) ==
    \E i \in 0..(Len(cs) - Len(sub)) : SubSeq(cs, i + 1, i + Len(sub)) = sub

(* ----------------------------- ErrorCode ------------------------------- *)
\* the values of the enumeration
ErrorCode ==
    { "INVALID_FORMAT", "MISSING_FIELD", "INVALID_BANK_CODE", "INVALID_ACCOUNT_NUMBER",
      "ACCOUNT_NOT_FOUND", "ACCOUNT_INACTIVE", "ACCOUNT_CLOSED", "ACCOUNT_BLOCKED",
      "API_ERROR", "CONNECTION_ERROR", "TIMEOUT_ERROR", "AUTHENTICATION_ERROR",
      "RATE_LIMIT_ERROR", "INVALID_ACCOUNT", "BANK_NOT_FOUND", "INVALID_REQUEST",
      "UNKNOWN_ERROR" }

\* mutation of map_pesalink_error: the message is looked at as it is written
map_pesalink_error_case_sensitive(status_code, message) ==
    IF status_code = 400 THEN "INVALID_REQUEST"
    ELSE IF status_code = 404
    THEN IF Contains(Chars("account"), Chars(message)) THEN "ACCOUNT_NOT_FOUND"
         ELSE IF Contains(Chars("bank"), Chars(message)) THEN "BANK_NOT_FOUND"
         ELSE "INVALID_ACCOUNT"
    ELSE IF status_code = 401 \/ status_code = 403 THEN "AUTHENTICATION_ERROR"
    ELSE IF status_code = 429 THEN "RATE_LIMIT_ERROR"
    ELSE IF status_code >= 500 THEN "API_ERROR"
    ELSE "UNKNOWN_ERROR"

\* ErrorCode.map_pesalink_error(status_code, message)
map_pesalink_error(status_code, message) ==
    IF status_code = 400 THEN "INVALID_REQUEST"
    ELSE IF status_code = 404
    THEN IF Contains(Chars("account"), lower(Chars(message))) THEN "ACCOUNT_NOT_FOUND"
         ELSE IF Contains(Chars("bank"), lower(Chars(message))) THEN "BANK_NOT_FOUND"
         ELSE "INVALID_ACCOUNT"
    ELSE IF status_code = 401 \/ status_code = 403 THEN "AUTHENTICATION_ERROR"
    ELSE IF status_code = 429 THEN "RATE_LIMIT_ERROR"
    ELSE IF status_code >= 500 THEN "API_ERROR"
    ELSE "UNKNOWN_ERROR"

\* ErrorHandler.handle_api_error on a response body of the model, which has no
\* "message" key: the message is the "error" value, or the default text
handle_api_error(status_code, response_body) ==
    LET error_message == IF response_body.error # None THEN response_body.error
                         ELSE "Unknown API error"
    IN  [error_code |-> map_pesalink_error(status_code, error_message),
         error_message |-> error_message]


(* ------------------------- remote service ------------------------------ *)
\* A response body: t is "empty" (no content), "notjson" (json() raises),
\* "list" (valid JSON that is no object) or "dict"; a key that is absent is None.
Body(t, error, status, accountHolderName, bankName) ==
    [t |-> t, error |-> error, status |-> status,
     accountHolderName |-> accountHolderName, bankName |-> bankName]

NoBody == Body("empty", None, None, None, None)
NotJson == Body("notjson", None, None, None, None)
JsonList == Body("list", None, None, None, None)
ValidBody == Body("dict", None, "Valid", "John Doe", "ABC Bank")
InvalidBody == Body("dict", None, "Invalid", None, None)
ErrorBody == Body("dict", "account not found", None, None, None)
ErrorValidBody == Body("dict", "Invalid API key", "Valid", "John Doe", "ABC Bank")
LowerCaseValidBody == Body("dict", None, "valid", "John Doe", "ABC Bank")
NullStatusBody == Body("dict", None, Null, None, None)

\* What one requests.request call can give: an HTTP response (kind "http"),
\* or an exception raised by the transport before any status exists.
Resp(kind, status_code, body) == [kind |-> kind, status_code |-> status_code, body |-> body]

ConnectionFailure == Resp("ConnectionError", 0, NoBody)
TimeoutFailure == Resp("Timeout", 0, NoBody)
OtherRequestException == Resp("RequestException", 0, NoBody)

\* every behaviour of the service and transport tried on a single call
ClientResponses ==
    { Resp("http", 200, b) : b \in {ValidBody, InvalidBody, ErrorBody, ErrorValidBody,
                                      LowerCaseValidBody, NullStatusBody, NoBody, NotJson,
                                      JsonList} }
    \cup { Resp("http", c, b) : c \in {400, 401, 403, 404, 429, 499},
                                b \in {ErrorBody, ValidBody, NoBody, NotJson} }
    \cup { Resp("http", c, ErrorBody) : c \in {500, 503} }
    \cup { ConnectionFailure, TimeoutFailure, OtherRequestException }

\* the behaviours tried on every call of a whole batch run
PipelineResponses ==
    { Resp("http", 200, ValidBody), Resp("http", 200, InvalidBody),
      Resp("http", 404, ErrorBody), Resp("http", 503, ErrorBody) }


(* --------------------------- PesaLinkClient ---------------------------- *)
\* str(e) of the exception a failed request raises
ExcMessage(r) ==
    IF r.kind = "http" THEN "HTTPError"
    ELSE r.kind

\* response.json() raises on a body that is no JSON
JsonRaises(body) == body.t = "notjson"

\* mutation of BackoffDelay: a product where the code has a power
BackoffDelayTimes(retry_delay, attempt) == retry_delay * (2 * attempt)

\* sleep_time = retry_delay * (2 ** attempt)
BackoffDelay(retry_delay, attempt) == retry_delay * Pow2(attempt)

\* mutation of ShouldRetry: the last attempt sleeps and retries too
ShouldRetryAlways(attempt, max_retries) == attempt < max_retries

\* attempt < max_retries - 1: another iteration follows this failed one
ShouldRetry(attempt, max_retries) == attempt < max_retries - 1

\* mutation of IsClientError: 429 and above are taken for retryable
IsClientErrorBelow429(status_code) == status_code >= 400 /\ status_code < 429

\* 400 <= e.response.status_code < 500: the failure is not retried
IsClientError(status_code) == status_code >= 400 /\ status_code < 500

\* One iteration of the retry loop of _make_request, attempt counted from 0,
\* on the answer r of requests.request:
\*   op "return": _make_request returns value (a body; {} is a dict without keys)
\*   op "sleep" : time.sleep(delay), then the next iteration
\*   op "raise" : an exception leaves _make_request
MakeRequestAttempt(r, attempt, max_retries, retry_delay) ==
    LET ret(v)   == [op |-> "return", value |-> v, delay |-> 0, msg |-> None]
        raise(m) == [op |-> "raise", value |-> NoBody, delay |-> 0, msg |-> m]
        retry    == IF ShouldRetry(attempt, max_retries)
                    THEN [op |-> "sleep", value |-> NoBody,
                          delay |-> BackoffDelay(retry_delay, attempt), msg |-> None]
                    ELSE raise(ExcMessage(r))
    IN  CASE r.kind \in {"ConnectionError", "Timeout"} -> retry
          [] r.kind = "RequestException" ->
               \* e.response is None: e.response.status_code raises AttributeError
               raise("AttributeError")
          [] r.kind = "http" /\ r.status_code < 400 ->
               IF r.body.t = "empty" THEN ret(Body("dict", None, None, None, None))
               ELSE IF JsonRaises(r.body) THEN raise("JSONDecodeError")
               ELSE ret(r.body)
          [] r.kind = "http" /\ IsClientError(r.status_code) ->
               IF r.body.t = "empty"
               THEN ret(Body("dict", ExcMessage(r), None, None, None))
               ELSE IF JsonRaises(r.body) THEN raise("JSONDecodeError")
               ELSE ret(r.body)
          [] OTHER -> retry

\* What a call of validate_account or validate_single ends with: a
\* ValidationResult it returns, or an exception it lets through.
Returns(result) == [raised |-> FALSE, result |-> result]
Raises(msg) == [raised |-> TRUE, result |-> msg]

\* mutation of ValidateAccountExcept: only the exceptions of requests are caught
ValidateAccountExceptNarrow(account, msg) ==
    IF msg \in {"AttributeError", "TypeError", "JSONDecodeError"}
    THEN Raises(msg)
    ELSE Returns(ValidationResult(account, ERROR, None, None, "EXCEPTION", msg))

\* validate_account's except clause: every Exception becomes an ERROR outcome
ValidateAccountExcept(account, msg) ==
    Returns(ValidationResult(account, ERROR, None, None, "EXCEPTION", msg))

\* mutation of InterpretResponse: the status is compared without regard to case
InterpretResponseAnyCase(account, response) ==
    IF response.t # "dict"
    THEN ValidateAccountExcept(account, "AttributeError")
    ELSE IF response.error # None
    THEN Returns(ValidationResult(account, ERROR, None, None, "API_ERROR",
                                  JsonValue(response.error)))
    ELSE IF response.status \in {"Valid", "valid"}
    THEN Returns(ValidationResult(account, VALID, JsonValue(response.accountHolderName),
                                  JsonValue(response.bankName), None, None))
    ELSE Returns(ValidationResult(account, INVALID, None, None, "INVALID_ACCOUNT",
                                  IF response.status = None
                                  THEN "Account validation failed"
                                  ELSE JsonValue(response.status)))

\* mutation of InterpretResponse: the status field is looked at before "error"
InterpretResponseStatusFirst(account, response) ==
    IF response.t # "dict"
    THEN ValidateAccountExcept(account, "AttributeError")
    ELSE IF response.status = "Valid"
    THEN Returns(ValidationResult(account, VALID, JsonValue(response.accountHolderName),
                                  JsonValue(response.bankName), None, None))
    ELSE IF response.error # None
    THEN Returns(ValidationResult(account, ERROR, None, None, "API_ERROR",
                                  JsonValue(response.error)))
    ELSE Returns(ValidationResult(account, INVALID, None, None, "INVALID_ACCOUNT",
                                  IF response.status = None
                                  THEN "Account validation failed"
                                  ELSE JsonValue(response.status)))

\* validate_account on the value _make_request returned
InterpretResponse(account, response) ==
    IF response.t # "dict"
    THEN ValidateAccountExcept(account, "AttributeError")
    ELSE IF response.error # None
    THEN Returns(ValidationResult(account, ERROR, None, None, "API_ERROR",
                                  JsonValue(response.error)))
    ELSE IF response.status = "Valid"
    THEN Returns(ValidationResult(account, VALID, JsonValue(response.accountHolderName),
                                  JsonValue(response.bankName), None, None))
    ELSE Returns(ValidationResult(account, INVALID, None, None, "INVALID_ACCOUNT",
                                  IF response.status = None
                                  THEN "Account validation failed"
                                  ELSE JsonValue(response.status)))

(* ------------------------ BatchValidationResult ------------------------ *)
\* valid_count, invalid_count and error_count: sum(1 for r in results if r.status == status)
CountStatus(results, status) ==
    Cardinality({j \in DOMAIN results : results[j].status = status})

(* -------------------- BatchProcessor.get_statistics -------------------- *)
\* (count / total) * 100 if total > 0 else 0, as the exact fraction num / den
Percent(count, total) ==
    IF total > 0 THEN [num |-> count * 100, den |-> total] ELSE [num |-> 0, den |-> 1]

\* mutation of get_statistics: the percentages are left as ratios
get_statistics_ratio(results) ==
    LET total == Len(results)
        Ratio(count) == IF total > 0 THEN [num |-> count, den |-> total]
                                     ELSE [num |-> 0, den |-> 1]
    IN  [total |-> total,
         valid |-> CountStatus(results, VALID),
         invalid |-> CountStatus(results, INVALID),
         error |-> CountStatus(results, ERROR),
         valid_percent |-> Ratio(CountStatus(results, VALID)),
         invalid_percent |-> Ratio(CountStatus(results, INVALID)),
         error_percent |-> Ratio(CountStatus(results, ERROR)),
         error_codes |-> << >>]

\* mutation of get_statistics: the table holds the code of the last counted
\* result only
get_statistics_last_code(results) ==
    LET total      == Len(results)
        Counted(j) == /\ results[j].status \in {INVALID, ERROR}
                      /\ ~Falsy(results[j].error_code)
        counted    == {i \in DOMAIN results : Counted(i)}
        codes      == {results[j].error_code :
                          j \in {i \in counted : \A k \in counted : k <= i}}
    IN  [total |-> total,
         valid |-> CountStatus(results, VALID),
         invalid |-> CountStatus(results, INVALID),
         error |-> CountStatus(results, ERROR),
         valid_percent |-> Percent(CountStatus(results, VALID), total),
         invalid_percent |-> Percent(CountStatus(results, INVALID), total),
         error_percent |-> Percent(CountStatus(results, ERROR), total),
         error_codes |-> [c \in codes |->
                            Cardinality({j \in counted : results[j].error_code = c})]]

\* get_statistics(results): error_codes maps each truthy error code of an
\* INVALID or ERROR result to the number of such results
get_statistics(results) ==
    LET total         == Len(results)
        valid_count   == CountStatus(results, VALID)
        invalid_count == CountStatus(results, INVALID)
        error_count   == CountStatus(results, ERROR)
        Counted(j)    == /\ results[j].status \in {INVALID, ERROR}
                         /\ ~Falsy(results[j].error_code)
        codes         == {results[j].error_code : j \in {i \in DOMAIN results : Counted(i)}}
    IN  [total |-> total,
         valid |-> valid_count,
         invalid |-> invalid_count,
         error |-> error_count,
         valid_percent |-> Percent(valid_count, total),
         invalid_percent |-> Percent(invalid_count, total),
         error_percent |-> Percent(error_count, total),
         error_codes |-> [c \in codes |->
                            Cardinality({j \in DOMAIN results :
                                            Counted(j) /\ results[j].error_code = c})]]

(* -------------------------- AccountValidator --------------------------- *)
\* mutation of _validate_format: the bank code is not looked at
_validate_format_number_only(account) == ~Falsy(account.account_number)

_validate_format(account) ==
    /\ ~Falsy(account.account_number)
    /\ ~Falsy(account.bank_code)

\* validate_single's own format check
FormatErrorResult(account) ==
    ValidationResult(account, INVALID, None, None, "INVALID_FORMAT",
                     "Account number format is invalid")

\* validate_single's except clause around validate_account
ValidateSingleExcept(account, completion) ==
    IF completion.raised
    THEN ValidationResult(account, ERROR, None, None, "UNKNOWN_ERROR", completion.result)
    ELSE completion.result


(* ------------------------------- state --------------------------------- *)
VARIABLES
    accounts,   \* the list handed to process: a sequence of Account
    env,        \* the environment: the configured PESALINK_API_KEY, and for a
                \* service that answers by the record alone, its answers
    processor,  \* BatchProcessor: max_batch_size, worker_threads, enable_parallel
    client,     \* PesaLinkClient: api_key, max_retries, retry_delay
    batches,    \* the Batch objects created so far; a batch's id is its index
    stack,      \* the active calls of process_batch, innermost last
    vb,         \* the active call of validate_batch: its list and its results
    task,       \* the validate_single calls submitted so far, in submission order
    pstate,     \* "init", "running", "returned" or "raised"
    returned,   \* the list process returned
    run1,       \* the list an earlier call of process returned, if any
    calls,      \* per input record: validation requests sent to the service
    fetches,    \* per input record: credential fetches made on its behalf
    pure,       \* a call of a function without side effects: its arguments, and
                \* what it returned; None while the pipeline is what runs
    batch_results,  \* the BatchValidationResult objects created so far
    now         \* datetime.now(): the number of the next reading of the clock

vars == <<accounts, env, processor, client, batches, stack, vb, task, pstate, returned,
          run1, calls, fetches, pure, batch_results, now>>

\* a timestamp field that holds None; the clock's readings start at 1
NoTime == 0

\* A new Batch. batch_id stands for the uuid4 the default factory draws: the
\* n-th batch created gets identifier n. __post_init__ sets total_accounts.
\* metadata is the content of the dict the batch holds and metadata_id the
\* identity of that dict object: the dict made for the n-th batch is dict n.
Batch(batch_id, accts, metadata) ==
    [batch_id |-> batch_id, accounts |-> accts, total_accounts |-> Len(accts),
     status |-> "pending", processed_at |-> NoTime, metadata |-> metadata,
     metadata_id |-> batch_id]

\* mutation of mark_processed: the timestamp is set, the status is left
mark_processed_keeps_status(batch, t) == [batch EXCEPT !.processed_at = t]

\* Batch.mark_processed at clock reading t
mark_processed(batch, t) == [batch EXCEPT !.status = "processed", !.processed_at = t]

\* a new BatchValidationResult, made at clock reading t
BatchValidationResult(batch_id, results, t) ==
    [batch_id |-> batch_id, results |-> results, started_at |-> t,
     completed_at |-> NoTime]

\* BatchValidationResult.mark_completed at clock reading t
mark_completed(result, t) == [result EXCEPT !.completed_at = t]

\* the default metadata: an empty dict, as a set of <<key, value>> pairs
NoMetadata == {}

\* a call of process_batch on batch b
Frame(b) ==
    [batch |-> b, pc |-> "enter", sub_batches |-> <<>>, i |-> 0,
     valid |-> <<>>, results |-> <<>>]

\* vb.call counts the calls of validate_batch; 0 before the first
NoCall(n) == [active |-> FALSE, call |-> n, accounts |-> <<>>, results |-> <<>>]

\* the result of a call that has not returned: no ValidationResult yet
NoResult == ValidationResult(0, None, None, None, None, None)

\* a validate_single call submitted by call number call of validate_batch for
\* position pos of its list, which holds the record account
Task(call, pos, account) ==
    [call |-> call, pos |-> pos, account |-> account, pc |-> "queued", attempt |-> 0,
     resps |-> <<>>, delays |-> <<>>, raised |-> FALSE, result |-> NoResult]

\* BatchProcessor.__init__ and AccountValidator.__init__
BatchProcessor(max_batch_size, worker_threads, enable_parallel) ==
    [max_batch_size  |-> IF max_batch_size # 0 THEN max_batch_size ELSE MAX_BATCH_SIZE,
     worker_threads  |-> IF worker_threads # 0 THEN worker_threads ELSE WORKER_THREADS,
     enable_parallel |-> enable_parallel /\ ENABLE_PARALLEL_PROCESSING]

\* PesaLinkClient.__init__
PesaLinkClient(api_key, max_retries, retry_delay) ==
    [api_key |-> api_key, max_retries |-> max_retries, retry_delay |-> retry_delay]

\* the environment: answers is None for a service free to answer anything
Env(key, answers, key_ok) ==
    [PESALINK_API_KEY |-> key, answers |-> answers, key_ok |-> key_ok]

InitWith(accts, e, p, c) ==
    /\ accounts = accts
    /\ env = e
    /\ processor = p
    /\ client = c
    /\ batches = <<>>
    /\ stack = <<>>
    /\ vb = NoCall(0)
    /\ task = <<>>
    /\ pstate = "init"
    /\ returned = <<>>
    /\ run1 = None
    /\ calls = [i \in 1..Len(accts) |-> 0]
    /\ fetches = [i \in 1..Len(accts) |-> 0]
    /\ pure = None
    /\ batch_results = <<>>
    /\ now = 1

Init ==
    \E accts \in SeqsUpTo(SampleAccounts, MaxRecords),
       mbs \in {-1, 0, 1, 2}, wt \in {-1, 0, 1, 2}, par \in BOOLEAN,
       key \in {None, "KEY"} :
        InitWith(accts, Env(key, None, TRUE), BatchProcessor(mbs, wt, par),
                 PesaLinkClient(key, MAX_RETRIES, RETRY_DELAY))

Top == stack[Len(stack)]

SetTop(f) == [stack EXCEPT ![Len(stack)] = f]

(* --------------------------- Batch.split ------------------------------- *)
\* the start offsets of range(0, n, max_size), for max_size # 0
RangeStarts(n, max_size) ==
    IF max_size > 0 THEN {i \in 0..(n - 1) : i % max_size = 0} ELSE {}

\* range() raises ValueError for a step of 0
SplitRaises(max_size) == max_size = 0

\* mutation of SplitChunks: the records after the last full chunk are left out
SplitChunksFloor(accts, max_size) ==
    LET n     == Len(accts)
        count == IF max_size > 0 THEN n \div max_size ELSE 0
    IN  [j \in 1..count |->
            SubSeq(accts, (j - 1) * max_size + 1, Min(j * max_size, n))]

\* Batch.split past its early return: the record sequences of the new batches,
\* in order
SplitChunks(accts, max_size) ==
    LET n      == Len(accts)
        starts == RangeStarts(n, max_size)
        count  == Cardinality(starts)
    IN  [j \in 1..count |->
            SubSeq(accts, (j - 1) * max_size + 1, Min(j * max_size, n))]

\* mutation of split: new batches are made of a batch that fits, too
split_always_copies(batch, max_size, created) ==
    LET chunks == SplitChunks(batch.accounts, IF max_size > 0 THEN max_size ELSE 1)
    IN  [j \in 1..Len(chunks) |-> Batch(created + j, chunks[j], batch.metadata)]

\* mutation of split: the new batches hold the parent's dict, not a copy of it
split_shares_metadata(batch, max_size, created) ==
    IF Len(batch.accounts) <= max_size
    THEN <<batch>>
    ELSE LET chunks == SplitChunks(batch.accounts, max_size)
         IN  [j \in 1..Len(chunks) |->
                [Batch(created + j, chunks[j], batch.metadata)
                    EXCEPT !.metadata_id = batch.metadata_id]]

\* Batch.split(batch, max_size) where it returns; created is the number of
\* batches created before the call
split(batch, max_size, created) ==
    IF Len(batch.accounts) <= max_size
    THEN <<batch>>
    ELSE LET chunks == SplitChunks(batch.accounts, max_size)
         IN  [j \in 1..Len(chunks) |-> Batch(created + j, chunks[j], batch.metadata)]

(* ------------------------ AccountValidator ----------------------------- *)
\* pre_validate_batch: the positions with a well-formed record, and the others
pre_validate_batch(accts) ==
    [valid   |-> SelectSeq(accts, LAMBDA a : _validate_format(accounts[a])),
     invalid |-> SelectSeq(accts, LAMBDA a : ~_validate_format(accounts[a]))]


(* -------------------------- BatchProcessor ----------------------------- *)
\* mutation of InvalidFormatResult: the outcome is left PENDING
InvalidFormatResultPending(account) ==
    ValidationResult(account, PENDING, None, None, "INVALID_FORMAT",
                     "Account format is invalid")

\* the INVALID_FORMAT outcome process_batch makes for a malformed record
InvalidFormatResult(account) ==
    ValidationResult(account, INVALID, None, None, "INVALID_FORMAT",
                     "Account format is invalid")

\* process(accounts): an empty list returns at once, else process_batch is
\* called on a new Batch of the whole list
Process ==
    /\ pstate = "init"
    /\ IF accounts = <<>>
       THEN /\ pstate' = "returned"
            /\ UNCHANGED <<batches, stack>>
       ELSE /\ pstate' = "running"
            /\ batches' = <<Batch(1, [i \in 1..Len(accounts) |-> i], NoMetadata)>>
            /\ stack' = <<Frame(1)>>
    /\ returned' = <<>>
    /\ UNCHANGED <<pure, batch_results, now, accounts, env, processor, client, vb, task,
                   run1, calls, fetches>>

\* an exception leaves process
Raise ==
    /\ pstate' = "raised"
    /\ stack' = <<>>
    /\ UNCHANGED returned

\* mutation of Return: the caller puts the results before those it has
ReturnPrepending(results) ==
    IF Len(stack) = 1
    THEN /\ pstate' = "returned"
         /\ returned' = results
         /\ stack' = <<>>
    ELSE LET caller == stack[Len(stack) - 1]
         IN  /\ stack' = [SubSeq(stack, 1, Len(stack) - 1) EXCEPT ![Len(stack) - 1] =
                             [caller EXCEPT !.results = results \o caller.results,
                                            !.i = caller.i + 1]]
             /\ UNCHANGED <<pstate, returned>>

\* process_batch returns results: to the loop of the calling process_batch,
\* which extends all_results and goes on, or to process, which returns them
Return(results) ==
    IF Len(stack) = 1
    THEN /\ pstate' = "returned"
         /\ returned' = results
         /\ stack' = <<>>
    ELSE LET caller == stack[Len(stack) - 1]
         IN  /\ stack' = [SubSeq(stack, 1, Len(stack) - 1) EXCEPT ![Len(stack) - 1] =
                             [caller EXCEPT !.results = caller.results \o results,
                                            !.i = caller.i + 1]]
             /\ UNCHANGED <<pstate, returned>>

\* process_batch on a batch larger than max_batch_size: Batch.split
SplitBatch ==
    /\ pstate = "running"
    /\ Top.pc = "enter"
    /\ batches[Top.batch].total_accounts > processor.max_batch_size
    /\ IF SplitRaises(processor.max_batch_size)
       THEN Raise /\ UNCHANGED batches
       ELSE LET sub == split(batches[Top.batch], processor.max_batch_size, Len(batches))
            IN  /\ batches' = batches \o sub
                /\ stack' = SetTop([Top EXCEPT !.pc = "loop", !.i = 1,
                                     !.sub_batches = [j \in 1..Len(sub) |-> Len(batches) + j]])
                /\ UNCHANGED <<pstate, returned>>
    /\ UNCHANGED <<pure, batch_results, now, accounts, env, processor, client, vb, task,
                   run1, calls, fetches>>

\* the loop over sub_batches calls process_batch on the next sub-batch
ProcessSubBatch ==
    /\ pstate = "running"
    /\ Top.pc = "loop"
    /\ Top.i <= Len(Top.sub_batches)
    /\ stack' = Append(stack, Frame(Top.sub_batches[Top.i]))
    /\ UNCHANGED <<pure, batch_results, now, accounts, env, processor, client, batches, vb,
                   task, pstate, returned, run1, calls, fetches>>

\* after the loop: the combined result is made of all_results, marked
\* completed and returned
ReturnCombined ==
    /\ pstate = "running"
    /\ Top.pc = "loop"
    /\ Top.i > Len(Top.sub_batches)
    /\ batch_results' =
          Append(batch_results,
                 mark_completed(BatchValidationResult(batches[Top.batch].batch_id,
                                                      Top.results, now), now + 1))
    /\ now' = now + 2
    /\ Return(Top.results)
    /\ UNCHANGED <<pure, accounts, env, processor, client, batches, vb, task, run1, calls,
                   fetches>>

\* process_batch on a batch that fits: a new batch_result, pre-validation, and
\* the INVALID_FORMAT outcomes of the malformed records appended to it
PreValidate ==
    /\ pstate = "running"
    /\ Top.pc = "enter"
    /\ ~(batches[Top.batch].total_accounts > processor.max_batch_size)
    /\ LET pre == pre_validate_batch(batches[Top.batch].accounts)
           invalid == [j \in 1..Len(pre.invalid) |-> InvalidFormatResult(pre.invalid[j])]
       IN  /\ stack' = SetTop([Top EXCEPT !.pc = "validate", !.valid = pre.valid,
                                         !.results = invalid])
           /\ batch_results' =
                 Append(batch_results,
                        BatchValidationResult(batches[Top.batch].batch_id, invalid, now))
    /\ now' = now + 1
    /\ UNCHANGED <<pure, accounts, env, processor, client, batches, vb, task, pstate,
                   returned, run1, calls, fetches>>

(* ---------------- AccountValidator.validate_batch ---------------------- *)
use_parallel == processor.enable_parallel /\ ENABLE_PARALLEL_PROCESSING

\* the validate_single calls a worker (or the sequential loop) is executing
Running == {k \in DOMAIN task : task[k].pc \in {"fetch", "request", "sleep"}}

\* the calls submitted by the active call of validate_batch
Current == {k \in DOMAIN task : task[k].call = vb.call}

\* ThreadPoolExecutor(max_workers) raises ValueError unless max_workers > 0
PoolRaises(max_workers) == max_workers <= 0

\* mutation of SubmitAll: every element is submitted twice
SubmitAllTwice(call, accts) ==
    [k \in 1..(2 * Len(accts)) |->
        [call |-> call, pos |-> ((k - 1) % Len(accts)) + 1,
         account |-> accts[((k - 1) % Len(accts)) + 1], pc |-> "queued", attempt |-> 0,
         resps |-> <<>>, delays |-> <<>>, raised |-> FALSE, result |-> NoResult]]

\* one validate_single call per element of the list, in list order
SubmitAll(call, accts) == [k \in 1..Len(accts) |-> Task(call, k, accts[k])]

\* validate_batch is called on the well-formed records: sequentially a list
\* comprehension, in parallel every record is submitted to a new pool
ValidateBatch ==
    /\ pstate = "running"
    /\ Top.pc = "validate"
    /\ IF use_parallel /\ PoolRaises(processor.worker_threads)
       THEN Raise /\ UNCHANGED <<vb, task>>
       ELSE /\ vb' = [active |-> TRUE, call |-> vb.call + 1, accounts |-> Top.valid,
                      results |-> <<>>]
            /\ task' = task \o SubmitAll(vb.call + 1, Top.valid)
            /\ stack' = SetTop([Top EXCEPT !.pc = "validating"])
            /\ UNCHANGED <<pstate, returned>>
    /\ UNCHANGED <<pure, batch_results, now, accounts, env, processor, client, batches,
                   run1, calls, fetches>>


\* mutation of MayStart: no call starts while a call is in its backoff delay
MayStartNoSleeper(k) ==
    IF use_parallel
    THEN /\ Cardinality(Running \cap Current) < processor.worker_threads
         /\ \A j \in Current : task[j].pc # "sleep"
    ELSE \A j \in 1..(k - 1) : task[j].pc = "collected"

\* mutation of MayStart: the pool starts every submitted call at once
MayStartUnbounded(k) ==
    IF use_parallel
    THEN TRUE
    ELSE \A j \in 1..(k - 1) : task[j].pc = "collected"

\* a worker is free to take the next submitted call: the pool runs at most
\* max_workers calls at a time; the sequential loop runs a call only when the
\* one before it has returned
MayStart(k) ==
    IF use_parallel
    THEN Cardinality(Running \cap Current) < processor.worker_threads
    ELSE \A j \in 1..(k - 1) : task[j].pc = "collected"

\* mutation of Finish: a call that ends after a sibling has failed fails too
FinishPoisoned(k, completion) ==
    [task EXCEPT ![k].pc = "done", ![k].raised = completion.raised,
                 ![k].result =
                    IF \E j \in DOMAIN task :
                          /\ j # k
                          /\ task[j].pc \in {"done", "collected"}
                          /\ task[j].result.status = ERROR
                    THEN ValidationResult(task[k].account, ERROR, None, None,
                                          "UNKNOWN_ERROR", "sibling failed")
                    ELSE ValidateSingleExcept(task[k].account, completion)]

\* call k ends: validate_single returns what validate_account returned, or
\* the UNKNOWN_ERROR outcome of its except clause
Finish(k, completion) ==
    [task EXCEPT ![k].pc = "done", ![k].raised = completion.raised,
                 ![k].result = ValidateSingleExcept(task[k].account, completion)]

\* the retry loop of _make_request is entered: range(max_retries) may be empty,
\* then _make_request returns None and validate_account fails on it
EnterRetryLoop(k) ==
    IF client.max_retries <= 0
    THEN Finish(k, ValidateAccountExcept(task[k].account, "TypeError"))
    ELSE [task EXCEPT ![k].pc = "request", ![k].attempt = 0]

\* validate_account up to _get_api_key: a cached key is used, else it is fetched
ValidateAccountEnter(k) ==
    IF Falsy(client.api_key)
    THEN [task EXCEPT ![k].pc = "fetch"]
    ELSE EnterRetryLoop(k)

\* validate_single starts on the oldest submitted record
StartTask(k) ==
    /\ vb.active
    /\ task[k].pc = "queued"
    /\ \A j \in 1..(k - 1) : task[j].pc # "queued"
    /\ MayStart(k)
    /\ task' = IF ~_validate_format(accounts[task[k].account])
               THEN Finish(k, Returns(FormatErrorResult(task[k].account)))
               ELSE ValidateAccountEnter(k)
    /\ UNCHANGED <<pure, batch_results, now, accounts, env, processor, client, batches,
                   stack, vb, pstate, returned, run1, calls, fetches>>

\* _fetch_api_key: the key is fetched and cached, or the fetch raises
FetchApiKey(k, ok) ==
    /\ vb.active
    /\ task[k].pc = "fetch"
    /\ fetches' = [fetches EXCEPT ![task[k].account] = @ + 1]
    /\ IF ok
       THEN /\ client' = [client EXCEPT !.api_key = "FETCHED"]
            /\ task' = EnterRetryLoop(k)
       ELSE /\ client' = client
            /\ task' = Finish(k, ValidateAccountExcept(task[k].account, "fetch failed"))
    /\ UNCHANGED <<pure, batch_results, now, accounts, env, processor, batches, stack, vb,
                   pstate, returned, run1, calls>>

\* one iteration of the retry loop: the request is sent and answered by r
Attempt(k, r) ==
    /\ vb.active
    /\ task[k].pc = "request"
    /\ calls' = [calls EXCEPT ![task[k].account] = @ + 1]
    /\ LET res  == MakeRequestAttempt(r, task[k].attempt, client.max_retries,
                                      client.retry_delay)
           seen == [task EXCEPT ![k].resps = Append(@, r)]
       IN  task' =
             CASE res.op = "return" ->
                    [Finish(k, InterpretResponse(task[k].account, res.value))
                        EXCEPT ![k].resps = seen[k].resps]
               [] res.op = "sleep" ->
                    [seen EXCEPT ![k].pc = "sleep", ![k].delays = Append(@, res.delay)]
               [] OTHER ->
                    [Finish(k, ValidateAccountExcept(task[k].account, res.msg))
                        EXCEPT ![k].resps = seen[k].resps]
    /\ UNCHANGED <<pure, batch_results, now, accounts, env, processor, client, batches,
                   stack, vb, pstate, returned, run1, fetches>>

\* time.sleep returns: the loop goes to its next iteration
Wake(k) ==
    /\ vb.active
    /\ task[k].pc = "sleep"
    /\ task' = [task EXCEPT ![k].pc = "request", ![k].attempt = @ + 1]
    /\ UNCHANGED <<pure, batch_results, now, accounts, env, processor, client, batches,
                   stack, vb, pstate, returned, run1, calls, fetches>>

\* mutation of CoordinatorExcept: the outcome is tied to the first record of
\* the list
CoordinatorExceptFirstRecord(account, e) ==
    ValidationResult(vb.accounts[1], ERROR, None, None, "UNKNOWN_ERROR", e)

\* the except clause of the loop over as_completed: future.result() has raised e
CoordinatorExcept(account, e) ==
    ValidationResult(account, ERROR, None, None, "UNKNOWN_ERROR", e)

\* a validate_single call ends with an exception of its own: raised before its
\* try or inside its except clause. In the pool the exception is kept in the
\* future; in the list comprehension it leaves validate_batch and process.
WorkerFails(k) ==
    /\ vb.active
    /\ task[k].pc \in {"fetch", "request", "sleep"}
    /\ IF use_parallel
       THEN /\ task' = [task EXCEPT ![k].pc = "failed", ![k].raised = TRUE]
            /\ UNCHANGED <<vb, stack, pstate, returned>>
       ELSE /\ Raise
            /\ vb' = NoCall(vb.call)
            /\ task' = [task EXCEPT ![k].pc = "failed", ![k].raised = TRUE]
    /\ UNCHANGED <<pure, batch_results, now, accounts, env, processor, client, batches,
                   run1, calls, fetches>>

\* the result of a finished call is appended to results: by as_completed in
\* completion order, by the list comprehension as each call returns; for a
\* future that holds an exception the coordinator appends its own outcome
Collect(k) ==
    /\ vb.active
    /\ k \in Current
    /\ task[k].pc \in {"done", "failed"}
    /\ LET result == IF task[k].pc = "failed"
                     THEN CoordinatorExcept(task[k].account, "worker failed")
                     ELSE task[k].result
       IN  /\ vb' = [vb EXCEPT !.results = Append(@, result)]
           /\ task' = [task EXCEPT ![k].pc = "collected", ![k].result = result]
    /\ UNCHANGED <<pure, batch_results, now, accounts, env, processor, client, batches,
                   stack, pstate, returned, run1, calls, fetches>>

\* mutation of AllCollected: validate_batch returns with the first outcome
AnyCollected == Current = {} \/ \E k \in Current : task[k].pc = "collected"

\* mutation of AllCollected: validate_batch returns once every call has started
AllStarted == \A k \in Current : task[k].pc # "queued"

\* every call of the list has been collected (and the pool has shut down)
AllCollected == \A k \in Current : task[k].pc = "collected"

\* the batch_result the active process_batch call made for the batch batch_id
ResultOf(batch_id) ==
    CHOOSE j \in DOMAIN batch_results : batch_results[j].batch_id = batch_id

\* validate_batch returns when every call is collected; process_batch extends
\* its results, marks the batch processed, the result completed, and returns
ValidateBatchReturn ==
    /\ pstate = "running"
    /\ Top.pc = "validating"
    /\ vb.active
    /\ AllCollected
    /\ batches' = [batches EXCEPT ![Top.batch] = mark_processed(@, now)]
    /\ batch_results' =
          [batch_results EXCEPT ![ResultOf(batches[Top.batch].batch_id)] =
              mark_completed([@ EXCEPT !.results = Top.results \o vb.results], now + 1)]
    /\ now' = now + 2
    /\ vb' = NoCall(vb.call)
    /\ Return(Top.results \o vb.results)
    /\ UNCHANGED <<pure, accounts, env, processor, client, task, run1, calls, fetches>>

Next ==
    \/ Process
    \/ SplitBatch
    \/ ProcessSubBatch
    \/ ReturnCombined
    \/ PreValidate
    \/ ValidateBatch
    \/ \E k \in DOMAIN task : StartTask(k)
    \/ \E k \in DOMAIN task, ok \in BOOLEAN : FetchApiKey(k, ok)
    \/ \E k \in DOMAIN task, r \in PipelineResponses : Attempt(k, r)
    \/ \E k \in DOMAIN task : Wake(k)
    \/ \E k \in DOMAIN task : Collect(k)
    \/ ValidateBatchReturn

Spec == Init /\ [][Next]_vars

\* the pipeline under the assumption that every thread that can take a step
\* takes one: a request is answered or times out, a sleep ends, a finished
\* future is collected
SpecLive == Init /\ [][Next]_vars /\ WF_vars(Next)

(* ------------- the pipeline with failing validate_single calls --------- *)
InitCoordinator ==
    \E accts \in SeqsUpTo(SampleAccounts, MaxRecords),
       mbs \in {1, 2}, wt \in {1, 2}, par \in BOOLEAN, key \in {None, "KEY"} :
        InitWith(accts, Env(key, None, TRUE), BatchProcessor(mbs, wt, par),
                 PesaLinkClient(key, MAX_RETRIES, RETRY_DELAY))

NextCoordinator ==
    \/ Next
    \/ \E k \in DOMAIN task : WorkerFails(k)

SpecCoordinator == InitCoordinator /\ [][NextCoordinator]_vars


(* ------------- one call of PesaLinkClient.validate_account ------------- *)
\* a caller holds a client and calls validate_account on one record, which
\* need not be well-formed
InitClient ==
    \E a \in SampleAccounts, key \in {None, "KEY"},
       mr \in 0..MaxRetriesBound, rd \in {1, RETRY_DELAY} :
        /\ accounts = <<a>>
        /\ env = Env(key, None, TRUE)
        /\ processor = BatchProcessor(0, 0, FALSE)
        /\ client = PesaLinkClient(key, mr, rd)
        /\ batches = <<>>
        /\ stack = <<>>
        /\ vb = [active |-> TRUE, call |-> 1, accounts |-> <<1>>, results |-> <<>>]
        /\ task = <<Task(1, 1, 1)>>
        /\ pstate = "running"
        /\ returned = <<>>
        /\ run1 = None
        /\ calls = <<0>>
        /\ fetches = <<0>>
        /\ pure = None
        /\ batch_results = <<>>
        /\ now = 1

CallValidateAccount ==
    /\ task[1].pc = "queued"
    /\ task' = ValidateAccountEnter(1)
    /\ UNCHANGED <<pure, batch_results, now, accounts, env, processor, client, batches,
                   stack, vb, pstate, returned, run1, calls, fetches>>

NextClient ==
    \/ CallValidateAccount
    \/ \E ok \in BOOLEAN : FetchApiKey(1, ok)
    \/ \E r \in ClientResponses : Attempt(1, r)
    \/ Wake(1)

SpecClient == InitClient /\ [][NextClient]_vars

(* ------- two calls of process against a service that answers ----------- *)
(* ------- by the record alone                                  ----------- *)
EquivAccounts ==
    { Account("1234567890", "01", "REF1"),
      Account("9876543210", "02", "REF2"),
      Account("", "01", "REF3") }

EquivNumbers == {a.account_number : a \in EquivAccounts} \ {""}

InitEquiv ==
    \E accts \in SeqsUpTo(EquivAccounts, MaxRecords),
       mbs \in {-1, 1, 2}, wt \in {1, 2}, par \in BOOLEAN, key \in {None, "KEY"},
       answers \in [EquivNumbers -> PipelineResponses], key_ok \in BOOLEAN :
        InitWith(accts, Env(key, answers, key_ok), BatchProcessor(mbs, wt, par),
                 PesaLinkClient(key, MAX_RETRIES, RETRY_DELAY))

\* the service's answer to a validation request for the record of call k
Answer(k) == env.answers[accounts[task[k].account].account_number]

\* the caller keeps the list process returned and calls process on the same
\* records again, on a new BatchProcessor whose max_batch_size holds them all
Rerun ==
    /\ pstate = "returned"
    /\ run1 = None
    /\ run1' = returned
    /\ processor' = BatchProcessor(Len(accounts), processor.worker_threads,
                                   processor.enable_parallel)
    /\ client' = PesaLinkClient(env.PESALINK_API_KEY, client.max_retries,
                                client.retry_delay)
    /\ pstate' = "init"
    /\ returned' = <<>>
    /\ batches' = <<>>
    /\ stack' = <<>>
    /\ vb' = NoCall(0)
    /\ task' = <<>>
    /\ batch_results' = <<>>
    /\ UNCHANGED <<pure, now, accounts, env, calls, fetches>>

NextEquiv ==
    \/ Process
    \/ SplitBatch
    \/ ProcessSubBatch
    \/ ReturnCombined
    \/ PreValidate
    \/ ValidateBatch
    \/ \E k \in DOMAIN task : StartTask(k)
    \/ \E k \in DOMAIN task : FetchApiKey(k, env.key_ok)
    \/ \E k \in DOMAIN task : Attempt(k, Answer(k))
    \/ \E k \in DOMAIN task : Wake(k)
    \/ \E k \in DOMAIN task : Collect(k)
    \/ ValidateBatchReturn
    \/ Rerun

SpecEquiv == InitEquiv /\ [][NextEquiv]_vars


(* ----------- calls of the functions without side effects --------------- *)
\* the status codes map_pesalink_error is called with
SampleStatusCodes ==
    {-1, 0, 200, 399, 400, 401, 402, 403, 404, 405, 428, 429, 430, 499, 500, 501, 503,
     599, 600}

\* the metadata of the batches handed to Batch.split
SampleMetadata == {NoMetadata, {<<"source", "accounts.csv">>}}

\* the pipeline is not running
NoPipeline ==
    /\ accounts = <<>>
    /\ env = Env(None, None, TRUE)
    /\ processor = BatchProcessor(0, 0, FALSE)
    /\ client = PesaLinkClient(None, MAX_RETRIES, RETRY_DELAY)
    /\ batches = <<>>
    /\ stack = <<>>
    /\ vb = NoCall(0)
    /\ task = <<>>
    /\ pstate = "init"
    /\ returned = <<>>
    /\ run1 = None
    /\ calls = <<>>
    /\ fetches = <<>>
    /\ batch_results = <<>>
    /\ now = 1

\* the longest result list get_statistics is called on
MaxResults == 3

\* outcomes as process returns them: of the pre-check, of validate_account
SampleResults ==
    { ValidationResult(1, VALID, "John Doe", "ABC Bank", None, None),
      ValidationResult(1, INVALID, None, None, "INVALID_FORMAT", "Account format is invalid"),
      ValidationResult(1, INVALID, None, None, "INVALID_ACCOUNT", "Invalid"),
      ValidationResult(1, ERROR, None, None, "EXCEPTION", "fetch failed") }

\* what a field of an Account can hold when _validate_format is called
SampleFieldValues == {None, "", "1234567890", "A", IntZero, IntNumber}

\* a caller is about to call _validate_format, ErrorCode.map_pesalink_error,
\* get_statistics, or Batch.split on a batch it has just created
InitPure ==
    /\ NoPipeline
    /\ \/ \E c \in SampleStatusCodes, m \in SampleMessages :
              pure = [op |-> "map_pesalink_error", pc |-> "call", status_code |-> c,
                      message |-> m, out |-> None]
       \/ \E n \in 0..MaxSplit, max_size \in -1..(MaxSplit + 1), md \in SampleMetadata :
              pure = [op |-> "split", pc |-> "call",
                      batch |-> Batch(1, [i \in 1..n |-> i], md), max_size |-> max_size,
                      created |-> 1, out |-> <<>>, again |-> <<>>]
       \/ \E number \in SampleFieldValues, bank \in SampleFieldValues :
              pure = [op |-> "_validate_format", pc |-> "call",
                      account |-> Account(number, bank, "REF1"), out |-> FALSE]
       \/ \E results \in SeqsUpTo(SampleResults, MaxResults) :
              pure = [op |-> "get_statistics", pc |-> "call", results |-> results,
                      out |-> None, permuted |-> <<>>, out_permuted |-> None]

\* ErrorCode.map_pesalink_error(status_code, message) returns
MapPesalinkError ==
    /\ pure.op = "map_pesalink_error"
    /\ pure.pc = "call"
    /\ pure' = [pure EXCEPT !.pc = "returned",
                            !.out = map_pesalink_error(pure.status_code, pure.message)]
    /\ UNCHANGED <<batch_results, now, accounts, env, processor, client, batches, stack, vb,
                   task, pstate, returned, run1, calls, fetches>>

\* Batch.split(batch, max_size) returns its list, or range() raises
BatchSplit ==
    /\ pure.op = "split"
    /\ pure.pc = "call"
    /\ IF Len(pure.batch.accounts) > pure.max_size /\ SplitRaises(pure.max_size)
       THEN pure' = [pure EXCEPT !.pc = "raised"]
       ELSE LET out == split(pure.batch, pure.max_size, pure.created)
            IN  pure' = [pure EXCEPT !.pc = "returned", !.out = out,
                                    !.created = @ + Cardinality({j \in DOMAIN out :
                                                   out[j].batch_id > pure.created})]
    /\ UNCHANGED <<batch_results, now, accounts, env, processor, client, batches, stack, vb,
                   task, pstate, returned, run1, calls, fetches>>

\* the caller splits the next batch of the returned list with the same max_size
SplitAgain ==
    /\ pure.op = "split"
    /\ pure.pc = "returned"
    /\ Len(pure.again) < Len(pure.out)
    /\ LET chunk == pure.out[Len(pure.again) + 1]
           out   == split(chunk, pure.max_size, pure.created)
       IN  pure' = [pure EXCEPT !.again = Append(@, out),
                               !.created = @ + Cardinality({j \in DOMAIN out :
                                              out[j].batch_id > pure.created})]
    /\ UNCHANGED <<batch_results, now, accounts, env, processor, client, batches, stack, vb,
                   task, pstate, returned, run1, calls, fetches>>

\* get_statistics(results) returns its dictionary
GetStatistics ==
    /\ pure.op = "get_statistics"
    /\ pure.pc = "call"
    /\ pure' = [pure EXCEPT !.pc = "returned", !.out = get_statistics(pure.results)]
    /\ UNCHANGED <<batch_results, now, accounts, env, processor, client, batches, stack, vb,
                   task, pstate, returned, run1, calls, fetches>>

\* the lists that hold the elements of s in another (or the same) order
Reorderings(s) ==
    { [i \in DOMAIN s |-> s[f[i]]] :
        f \in {g \in [DOMAIN s -> DOMAIN s] :
                  \A i, j \in DOMAIN s : g[i] = g[j] => i = j} }

\* the caller calls get_statistics once more, on the same results in some order
GetStatisticsPermuted ==
    /\ pure.op = "get_statistics"
    /\ pure.pc = "returned"
    /\ \E p \in Reorderings(pure.results) :
          pure' = [pure EXCEPT !.pc = "again", !.permuted = p,
                               !.out_permuted = get_statistics(p)]
    /\ UNCHANGED <<batch_results, now, accounts, env, processor, client, batches, stack, vb,
                   task, pstate, returned, run1, calls, fetches>>

\* AccountValidator._validate_format(account) returns
ValidateFormat ==
    /\ pure.op = "_validate_format"
    /\ pure.pc = "call"
    /\ pure' = [pure EXCEPT !.pc = "returned", !.out = _validate_format(pure.account)]
    /\ UNCHANGED <<batch_results, now, accounts, env, processor, client, batches, stack, vb,
                   task, pstate, returned, run1, calls, fetches>>

NextPure ==
    \/ ValidateFormat
    \/ MapPesalinkError
    \/ BatchSplit
    \/ SplitAgain
    \/ GetStatistics
    \/ GetStatisticsPermuted

SpecPure == InitPure /\ [][NextPure]_vars


(* ============================== claims ================================= *)
\* the records the outcomes of a list refer to, as a bag of input positions
ReferencedAccounts(results) == SeqToBag([j \in 1..Len(results) |-> results[j].account])

InputPositions == SeqToBag([i \in 1..Len(accounts) |-> i])

Malformed(i) == Falsy(accounts[i].account_number) \/ Falsy(accounts[i].bank_code)

Last(s) == s[Len(s)]

\* the claims' classification of what a request was answered with
IsRetryable(r) ==
    \/ r.kind \in {"ConnectionError", "Timeout"}
    \/ r.kind = "http" /\ r.status_code >= 500

Is4xx(r) == r.kind = "http" /\ r.status_code \in 400..499

\* a 200 answer carrying a validation verdict
IsVerdict(r) ==
    r.kind = "http" /\ r.status_code = 200 /\ r.body \in {ValidBody, InvalidBody}

AllRetryable(resps) == \A j \in DOMAIN resps : IsRetryable(resps[j])

Finished(k) == task[k].pc \in {"done", "collected"}

\* C1: when process returns, the returned list has one outcome per input
\* record: its length is the number of input records and the bag of records
\* its outcomes refer to is the bag of input records.
C1_NoRecordLostOrDuplicated ==
    pstate = "returned" =>
        /\ Len(returned) = Len(accounts)
        /\ ReferencedAccounts(returned) = InputPositions

\* C2: no validation request and no credential fetch is ever made for a record
\* whose account number or bank code is empty or missing, and the outcome
\* process returns for such a record is INVALID with code INVALID_FORMAT.
C2_MalformedRejectedLocally ==
    /\ \A i \in DOMAIN accounts : Malformed(i) => calls[i] = 0 /\ fetches[i] = 0
    /\ pstate = "returned" =>
          \A j \in DOMAIN returned :
              Malformed(returned[j].account) =>
                  /\ returned[j].status = INVALID
                  /\ returned[j].error_code = "INVALID_FORMAT"

\* process has returned the INVALID_FORMAT outcome of a malformed record next
\* to the outcome of a record that was sent to the service
C2_Witness ==
    /\ pstate = "returned"
    /\ \E j \in DOMAIN returned :
          Malformed(returned[j].account) /\ returned[j].error_code = "INVALID_FORMAT"
    /\ \E i \in DOMAIN accounts : calls[i] > 0

\* C3: validate_account never raises: whatever the service or the transport
\* does, the call ends by returning a ValidationResult whose status is VALID,
\* INVALID or ERROR.
C3_ValidateAccountNeverRaises ==
    \A k \in DOMAIN task :
        /\ ~task[k].raised
        /\ Finished(k) => task[k].result.status \in {VALID, INVALID, ERROR}

\* a call has ended with an ERROR outcome after the transport raised an
\* exception that carries no response
C3_Witness ==
    \E k \in DOMAIN task :
        /\ Finished(k)
        /\ task[k].result.status = ERROR
        /\ task[k].result.error_code = "EXCEPTION"
        /\ task[k].resps # <<>>
        /\ Last(task[k].resps) = OtherRequestException

\* the call has failed k times with a retryable condition, k < max_retries,
\* and was then answered with a verdict
SucceededAfterRetries(k) ==
    LET resps == task[k].resps
    IN  /\ Finished(k)
        /\ resps # <<>>
        /\ IsVerdict(Last(resps))
        /\ AllRetryable(SubSeq(resps, 1, Len(resps) - 1))
        /\ Len(resps) - 1 < client.max_retries

\* C4: a call that fails k < max_retries times with a retryable condition and
\* then succeeds has made k+1 attempts, has slept k times, for retry_delay*2^0,
\* ..., retry_delay*2^(k-1) in this order, and its outcome is that of the
\* successful answer.
C4_RetryThenSuccess ==
    \A k \in DOMAIN task :
        SucceededAfterRetries(k) =>
            LET n    == Len(task[k].resps)
                body == Last(task[k].resps).body
            IN  /\ calls[task[k].account] = n
                /\ task[k].delays = [j \in 1..(n - 1) |-> client.retry_delay * 2^(j - 1)]
                /\ body = ValidBody =>
                      /\ task[k].result.status = VALID
                      /\ task[k].result.validated_name = body.accountHolderName
                      /\ task[k].result.bank_name = body.bankName
                /\ body = InvalidBody =>
                      /\ task[k].result.status = INVALID
                      /\ task[k].result.error_code = "INVALID_ACCOUNT"

\* 503 on the first two attempts, 200/Valid on the third, max_retries = 3:
\* the outcome is VALID and two delays were observed
C4_Witness ==
    \E k \in DOMAIN task :
        /\ SucceededAfterRetries(k)
        /\ client.max_retries = 3
        /\ Len(task[k].resps) = 3
        /\ task[k].resps[1].status_code = 503
        /\ task[k].resps[2].status_code = 503
        /\ task[k].resps[3].body = ValidBody
        /\ task[k].result.status = VALID
        /\ Len(task[k].delays) = 2

\* C5: a call that fails with a retryable condition on every attempt makes
\* exactly max_retries attempts and max_retries-1 delays, never sleeps after
\* its last attempt, and ends with an ERROR outcome.
C5_RetriesExhausted ==
    \A k \in DOMAIN task :
        /\ task[k].pc = "sleep" => task[k].attempt < client.max_retries - 1
        /\ Finished(k) /\ task[k].resps # <<>> /\ AllRetryable(task[k].resps) =>
              /\ Len(task[k].resps) = client.max_retries
              /\ calls[task[k].account] = client.max_retries
              /\ Len(task[k].delays) = client.max_retries - 1
              /\ task[k].result.status = ERROR

\* three attempts out of three have failed with a retryable condition
C5_Witness ==
    \E k \in DOMAIN task :
        /\ Finished(k)
        /\ client.max_retries = 3
        /\ Len(task[k].resps) = 3
        /\ AllRetryable(task[k].resps)
        /\ task[k].result.status = ERROR

\* the code the error classifier gives a retryable failure
ClassifiedCode(r) ==
    CASE r.kind = "ConnectionError" -> "CONNECTION_ERROR"
      [] r.kind = "Timeout" -> "TIMEOUT_ERROR"
      [] OTHER -> "API_ERROR"

\* C6: when the retries are exhausted on a retryable failure, the ERROR outcome
\* carries the classified code of the last failure: CONNECTION_ERROR,
\* TIMEOUT_ERROR, or API_ERROR for a status >= 500.
C6_ExhaustionCarriesClassifiedCode ==
    \A k \in DOMAIN task :
        Finished(k) /\ task[k].resps # <<>> /\ AllRetryable(task[k].resps) =>
            task[k].result.error_code = ClassifiedCode(Last(task[k].resps))

\* C7: an answer with a status in 400..499 is the last answer of its call: the
\* call has ended with it, no delay followed it and no further request was
\* sent, on whichever attempt it came.
C7_ClientErrorNeverRetried ==
    \A k \in DOMAIN task :
        \A j \in DOMAIN task[k].resps :
            Is4xx(task[k].resps[j]) =>
                /\ j = Len(task[k].resps)
                /\ Finished(k)
                /\ Len(task[k].delays) = j - 1
                /\ calls[task[k].account] = j

\* a 429 came on the second of three allowed attempts, and the call ended
C7_Witness ==
    \E k \in DOMAIN task :
        /\ client.max_retries = 3
        /\ Len(task[k].resps) = 2
        /\ task[k].resps[2].kind = "http"
        /\ task[k].resps[2].status_code = 429
        /\ Finished(k)


\* the outcomes of a list by reference id, status and error code, as a bag
OutcomeBag(results) ==
    SeqToBag([j \in 1..Len(results) |->
                 <<accounts[results[j].account].reference_id, results[j].status,
                   results[j].error_code>>])

\* C8: against a service whose answer depends only on the record, the list
\* process returns, whether or not max_batch_size made it split the batch,
\* holds the same bag of (reference id, status, error code) as the list a
\* second call returns on the same records with a max_batch_size that holds
\* them all.
C8_SplitEqualsUnsplit ==
    pstate = "returned" /\ run1 # None => OutcomeBag(run1) = OutcomeBag(returned)

\* C9: in parallel mode the validate_single calls being executed are never
\* more than worker_threads, and they all belong to the one active call of
\* validate_batch: every call of an earlier sub-batch has been collected.
C9_AtMostWInFlight ==
    /\ use_parallel /\ Running # {} => Cardinality(Running) <= processor.worker_threads
    /\ \A k \in DOMAIN task : k \notin Current \/ ~vb.active => task[k].pc = "collected"

\* the pool is full while a submitted call waits for a free worker
C9_Witness ==
    /\ use_parallel
    /\ Cardinality(Running) = processor.worker_threads
    /\ \E k \in DOMAIN task : task[k].pc = "queued"

\* C10: in one pass of validate_batch every position of the list has exactly
\* one validate_single call, made for the record at that position, so no two
\* workers execute validate_single for the same position.
C10_EachRecordSubmittedOnce ==
    vb.active =>
        /\ \A p \in DOMAIN vb.accounts :
              Cardinality({k \in Current : task[k].pos = p}) = 1
        /\ \A k \in Current :
              /\ task[k].pos \in DOMAIN vb.accounts
              /\ task[k].account = vb.accounts[task[k].pos]
        /\ \A j, k \in Running : j # k => task[j].pos # task[k].pos

\* two workers execute validate_single at the same time, on two positions
C10_Witness ==
    /\ vb.active
    /\ use_parallel
    /\ Cardinality(Running) = 2

\* C11: validate_batch returns only when every record of its list has an
\* outcome: at the step it returns, its result list holds one outcome for each
\* record it was given and none of its validate_single calls is still running
\* or waiting.
C11_ReturnsAfterAllOutcomes ==
    [][vb.active /\ ~vb'.active =>
          /\ Len(vb.results) = Len(vb.accounts)
          /\ ReferencedAccounts(vb.results) = SeqToBag(vb.accounts)
          /\ \A k \in Current : task[k].pc = "collected"
          /\ Running = {}]_vars

\* a parallel validate_batch of two records has returned
C11_Witness ==
    /\ use_parallel
    /\ ~vb.active
    /\ vb.call = 1
    /\ Cardinality({k \in DOMAIN task : task[k].call = 1 /\ task[k].pc = "collected"}) = 2

RECURSIVE SumSeq(_)
SumSeq(s) == IF s = <<>> THEN 0 ELSE Head(s) + SumSeq(Tail(s))

\* the outcome made of a credential fetch that failed
FromFailedFetch(result) == result.error_message = "fetch failed"

NoFetchFailed == \A k \in DOMAIN task : Finished(k) => ~FromFailedFetch(task[k].result)

\* C12: the credential is fetched at most once per client: no two workers are
\* in _fetch_api_key at the same time, and as long as no fetch has failed at
\* most one fetch request has been issued.
C12_CredentialFetchedOnce ==
    /\ Cardinality({k \in DOMAIN task : task[k].pc = "fetch"}) <= 1
    /\ NoFetchFailed => SumSeq(fetches) <= 1

\* C13: a credential that cannot be obtained aborts the run: no record gets an
\* outcome made of the failed fetch, and process returns no list after it.
C13_CredentialFailureAborts ==
    /\ \A k \in DOMAIN task : Finished(k) => ~FromFailedFetch(task[k].result)
    /\ pstate = "returned" => \A j \in DOMAIN returned : ~FromFailedFetch(returned[j])

\* the call was rejected with a 4xx status and a body that carries a message
RejectedWithMessage(k) ==
    /\ Finished(k)
    /\ task[k].resps # <<>>
    /\ Is4xx(Last(task[k].resps))
    /\ Last(task[k].resps).body.t = "dict"
    /\ Last(task[k].resps).body.error # None

\* C15: the outcome of a call the service rejected with a 4xx status carries
\* the error code the classifier gives that status and message; a 404 with
\* "account not found" gives ACCOUNT_NOT_FOUND.
C15_RejectionCarriesClassifiedCode ==
    \A k \in DOMAIN task :
        RejectedWithMessage(k) =>
            task[k].result.error_code =
                handle_api_error(Last(task[k].resps).status_code,
                                 Last(task[k].resps).body).error_code

\* the call was answered with a 2xx status and a JSON object without "error"
AnsweredWithSuccess(k) ==
    /\ Finished(k)
    /\ task[k].resps # <<>>
    /\ Last(task[k].resps).kind = "http"
    /\ Last(task[k].resps).status_code \in 200..299
    /\ Last(task[k].resps).body.t \in {"dict", "empty"}
    /\ Last(task[k].resps).body.error = None

\* C16: on a successful response the outcome is VALID, with the response's
\* accountHolderName and bankName, exactly when the status field is "Valid";
\* for any other status it is INVALID with code INVALID_ACCOUNT and the status
\* text as its message.
C16_ValidExactlyOnStatusValid ==
    \A k \in DOMAIN task :
        AnsweredWithSuccess(k) =>
            LET body == Last(task[k].resps).body
                res  == task[k].result
            IN  /\ res.status = VALID <=> body.status = "Valid"
                /\ body.status = "Valid" =>
                      /\ res.validated_name = body.accountHolderName
                      /\ res.bank_name = body.bankName
                /\ body.status # "Valid" =>
                      /\ res.status = INVALID
                      /\ res.error_code = "INVALID_ACCOUNT"
                      /\ body.status \notin {None, Null} => res.error_message = body.status

\* a 200 response with status "valid" and a holder name gave INVALID with the
\* message "valid"
C16_Witness ==
    \E k \in DOMAIN task :
        /\ AnsweredWithSuccess(k)
        /\ Last(task[k].resps).body = LowerCaseValidBody
        /\ task[k].result.status = INVALID
        /\ task[k].result.error_message = "valid"

\* the call ended on an answer the client does not expect: a body that is no
\* JSON or no JSON object, or an exception of the transport without a response
EndedUnexpectedly(k) ==
    /\ Finished(k)
    /\ task[k].resps # <<>>
    /\ LET r == Last(task[k].resps)
       IN  \/ r.kind = "RequestException"
           \/ r.kind = "http" /\ r.status_code < 500 /\ r.body.t \in {"notjson", "list"}

\* C17: an unexpected exception while one record is validated, such as a
\* response body that cannot be decoded, gives an outcome with status ERROR and
\* code UNKNOWN_ERROR.
C17_UnexpectedExceptionIsUnknownError ==
    \A k \in DOMAIN task :
        EndedUnexpectedly(k) =>
            /\ task[k].result.status = ERROR
            /\ task[k].result.error_code = "UNKNOWN_ERROR"

\* C18: every error code of an outcome process returns is a value of
\* ErrorCode; an outcome without an error carries none.
C18_CodesWithinTaxonomy ==
    pstate = "returned" =>
        \A j \in DOMAIN returned : returned[j].error_code \in ErrorCode \cup {None}

\* C21: splitting and processing leave every existing batch's records,
\* identifier and metadata as they are, with total_accounts the length of the
\* record sequence; a chunk holds a dict of its own, so that a change of a
\* chunk's metadata is no change of the parent's.
C21_ParentBatchUnchanged ==
    /\ [](\A b \in DOMAIN batches :
            /\ batches[b].total_accounts = Len(batches[b].accounts)
            /\ \A c \in DOMAIN batches :
                  c # b => batches[c].metadata_id # batches[b].metadata_id)
    /\ [][\A b \in DOMAIN batches :
            /\ b \in DOMAIN batches'
            /\ batches'[b].accounts = batches[b].accounts
            /\ batches'[b].batch_id = batches[b].batch_id
            /\ batches'[b].metadata = batches[b].metadata
            /\ batches'[b].metadata_id = batches[b].metadata_id]_vars

\* process has returned after the batch was split in two and both chunks were
\* processed
C21_Witness ==
    /\ pstate = "returned"
    /\ Len(batches) = 3
    /\ batches[1].status = "pending"
    /\ batches[2].status = "processed"
    /\ batches[3].status = "processed"
    /\ batches[1].accounts = <<1, 2>>

\* C22: an outcome has an error code and an error message exactly when its
\* status is not VALID.
C22_ErrorFieldsIffNotValid ==
    \A k \in DOMAIN task :
        Finished(k) =>
            LET res == task[k].result
            IN  /\ res.status = VALID => res.error_code = None /\ res.error_message = None
                /\ res.status # VALID => res.error_code # None /\ res.error_message # None

IsPrefix(s, t) == Len(s) <= Len(t) /\ SubSeq(t, 1, Len(s)) = s

\* no outcome of the list is PENDING and no record has two outcomes in it
Settled(results) ==
    /\ \A j \in DOMAIN results : results[j].status \in {VALID, INVALID, ERROR}
    /\ \A i, j \in DOMAIN results : results[i].account = results[j].account => i = j

\* C23: every outcome in a result list has one of the statuses VALID, INVALID
\* and ERROR, a record has one outcome however often its call was retried, and
\* an outcome once made or added to a result list is never replaced or changed.
C23_OutcomeSettledOnce ==
    /\ [](/\ Settled(vb.results)
          /\ \A f \in DOMAIN stack : Settled(stack[f].results)
          /\ pstate = "returned" => Settled(returned))
    /\ [][/\ vb.active /\ vb'.active => IsPrefix(vb.results, vb'.results)
          /\ \A f \in DOMAIN stack :
                f \in DOMAIN stack' => IsPrefix(stack[f].results, stack'[f].results)
          /\ \A k \in DOMAIN task : Finished(k) => task'[k].result = task[k].result]_vars

\* process has returned the single outcome of a call that was retried twice,
\* next to the outcome of a malformed record
C23_Witness ==
    /\ pstate = "returned"
    /\ Len(returned) = 2
    /\ \E k \in DOMAIN task :
          /\ Len(task[k].resps) = 3
          /\ Cardinality({j \in DOMAIN returned : returned[j] = task[k].result}) = 1
    /\ \E j \in DOMAIN returned : Malformed(returned[j].account)

\* what validate_account returns for record a when every request for it gets
\* the answer r, from attempt on
RECURSIVE ReplayAnswer(_, _, _)
ReplayAnswer(a, r, attempt) ==
    LET res == MakeRequestAttempt(r, attempt, client.max_retries, client.retry_delay)
    IN  CASE res.op = "return" -> InterpretResponse(a, res.value).result
          [] res.op = "sleep" -> ReplayAnswer(a, r, attempt + 1)
          [] OTHER -> ValidateAccountExcept(a, res.msg).result

\* the outcome of record a when it is processed alone against the service that
\* answers by the record
AloneOutcome(a) ==
    IF ~_validate_format(accounts[a]) THEN InvalidFormatResult(a)
    ELSE IF Falsy(env.PESALINK_API_KEY) /\ ~env.key_ok
    THEN ValidateAccountExcept(a, "fetch failed").result
    ELSE ReplayAnswer(a, env.answers[accounts[a].account_number], 0)

\* C24: whatever happens to the other records of the batch, the outcome of a
\* record is the outcome it gets when it is processed alone against the same
\* service.
C24_SiblingFailureIsolated ==
    /\ \A k \in DOMAIN task : Finished(k) => task[k].result = AloneOutcome(task[k].account)
    /\ pstate = "returned" =>
          \A j \in DOMAIN returned : returned[j] = AloneOutcome(returned[j].account)

\* process has returned a VALID outcome for a record whose sibling ended in
\* ERROR after its retries were exhausted
C24_Witness ==
    /\ pstate = "returned"
    /\ \E i, j \in DOMAIN returned :
          /\ returned[i].status = VALID
          /\ returned[j].status = ERROR
          /\ returned[j].error_code = "EXCEPTION"
          /\ \E k \in DOMAIN task :
                task[k].account = returned[j].account /\ Len(task[k].resps) = 3

\* C29: against a service that answers by the record, the list the parallel
\* coordinator returns holds, in whatever order the workers have finished, the
\* same bag of outcomes, and so the same valid, invalid and error counts: the
\* outcomes its records have by themselves.
C29_OutcomesIndependentOfOrder ==
    [][use_parallel /\ vb.active /\ ~vb'.active =>
          LET expected == [i \in DOMAIN vb.accounts |-> AloneOutcome(vb.accounts[i])]
          IN  /\ SeqToBag(vb.results) = SeqToBag(expected)
              /\ \A st \in {VALID, INVALID, ERROR} :
                    CountStatus(vb.results, st) = CountStatus(expected, st)]_vars

\* the parallel coordinator has returned two outcomes in the order opposite to
\* the order of its list
C29_Witness ==
    /\ use_parallel
    /\ ~vb.active
    /\ pstate = "returned"
    /\ Len(returned) = 2
    /\ Len(batches) = 1
    /\ ~Malformed(1) /\ ~Malformed(2)
    /\ returned[1].account = 2
    /\ returned[1].status # returned[2].status

\* C25: in the list process returns, no outcome of the coordinator (of a
\* well-formed record) comes before an outcome of the format pre-check (of a
\* malformed record), whether or not the input was split.
C25_MalformedOutcomesFirst ==
    pstate = "returned" =>
        \A i, j \in DOMAIN returned :
            (~Malformed(returned[i].account) /\ Malformed(returned[j].account)) => j < i

\* C26: when parallelism is disabled or the worker count is at most 1, process
\* does not raise, at most one validate_single call runs at a time, and the
\* coordinator's result list is in the order of its input list.
C26_SequentialWhenOneWorker ==
    (~use_parallel \/ processor.worker_threads <= 1) =>
        /\ pstate # "raised"
        /\ Cardinality(Running) <= 1
        /\ \A i, j \in DOMAIN vb.results :
              i < j => vb.results[i].account < vb.results[j].account

\* C27: in parallel mode, the coordinator turns a call that ended with an
\* exception into an ERROR outcome with code UNKNOWN_ERROR for the record of
\* that call, stays in its loop, and returns one outcome for every record of its
\* list, the other records' outcomes being those of their calls.
C27_WorkerFailureBecomesUnknownError ==
    /\ [][\A k \in DOMAIN task :
            (use_parallel /\ task[k].pc = "failed" /\ task'[k].pc # "failed") =>
                /\ vb'.results = Append(vb.results,
                                        ValidationResult(task[k].account, ERROR, None, None,
                                                         "UNKNOWN_ERROR", "worker failed"))
                /\ vb'.active
                /\ pstate' = pstate
                /\ \A j \in DOMAIN task : j # k => task'[j] = task[j]]_vars
    /\ [][(use_parallel /\ vb.active /\ ~vb'.active) =>
            /\ pstate' # "raised"
            /\ Len(vb.results) = Len(vb.accounts)
            /\ \A k \in DOMAIN task : task[k].call = vb.call =>
                  /\ task[k].pc = "collected"
                  /\ task[k].result.account = vb.accounts[task[k].pos]
                  /\ \E j \in DOMAIN vb.results : vb.results[j] = task[k].result]_vars

\* the coordinator has collected the outcome of a call that ended with an
\* exception and, after it, the VALID outcome of another record; process has
\* returned both
C27_Witness ==
    /\ use_parallel
    /\ pstate = "returned"
    /\ Len(returned) = 2
    /\ Len(batches) = 1
    /\ returned[1] = ValidationResult(returned[1].account, ERROR, None, None,
                                      "UNKNOWN_ERROR", "worker failed")
    /\ returned[2].status = VALID
    /\ returned[2].account # returned[1].account

\* C28: with two workers or more, while a call of the list is in its backoff
\* delay, every other call of the list can take its next step: the oldest
\* submitted call can start when a worker is free, a started call can fetch the
\* key or send its request, a finished call can be collected.
C28_BackoffBlocksOnlyItsWorker ==
    (use_parallel /\ processor.worker_threads >= 2 /\ vb.active
        /\ \E s \in Current : task[s].pc = "sleep") =>
        \A k \in Current :
            /\ (/\ task[k].pc = "queued"
                /\ \A j \in 1..(k - 1) : task[j].pc # "queued"
                /\ Cardinality(Running \cap Current) < processor.worker_threads)
                  => ENABLED StartTask(k)
            /\ task[k].pc = "fetch" => ENABLED FetchApiKey(k, TRUE)
            /\ task[k].pc = "request" =>
                  \A r \in PipelineResponses : ENABLED Attempt(k, r)
            /\ task[k].pc = "sleep" => ENABLED Wake(k)
            /\ task[k].pc = "done" => ENABLED Collect(k)

\* two workers: while the call for the first record is in its backoff delay,
\* the call for the second record has started, ended and been collected
C28_Witness ==
    /\ use_parallel
    /\ processor.worker_threads >= 2
    /\ vb.active
    /\ \E s, k \in Current :
          /\ s < k
          /\ task[s].pc = "sleep"
          /\ task[k].pc = "collected"
          /\ task[k].resps # <<>>

\* the number of elements of results with the given status, counted one by one
RECURSIVE Tally(_, _)
Tally(results, status) ==
    IF results = <<>> THEN 0
    ELSE (IF Head(results).status = status THEN 1 ELSE 0) + Tally(Tail(results), status)

\* p is the fraction count / total times 100
IsPercentOf(p, count, total) == p.den > 0 /\ p.num * total = count * 100 * p.den

\* C30: the dictionary get_statistics returns has total = len(results), the
\* three counts are the numbers of VALID, INVALID and ERROR results and add up
\* to total, and each percentage is count / total * 100, or 0 for the empty list.
C30_StatisticsAddUp ==
    (pure.op = "get_statistics" /\ pure.pc = "returned") =>
        LET st == pure.out
            n  == Len(pure.results)
        IN  /\ st.total = n
            /\ st.valid = Tally(pure.results, VALID)
            /\ st.invalid = Tally(pure.results, INVALID)
            /\ st.error = Tally(pure.results, ERROR)
            /\ st.valid + st.invalid + st.error = st.total
            /\ IF n = 0
               THEN /\ st.valid_percent.num = 0
                    /\ st.invalid_percent.num = 0
                    /\ st.error_percent.num = 0
               ELSE /\ IsPercentOf(st.valid_percent, st.valid, n)
                    /\ IsPercentOf(st.invalid_percent, st.invalid, n)
                    /\ IsPercentOf(st.error_percent, st.error, n)

\* get_statistics has returned for a list of one VALID, one INVALID and one
\* ERROR result: each percentage is 100 / 3
C30_Witness ==
    /\ pure.op = "get_statistics"
    /\ pure.pc = "returned"
    /\ pure.out.total = 3
    /\ pure.out.valid = 1 /\ pure.out.invalid = 1 /\ pure.out.error = 1
    /\ pure.out.valid_percent = [num |-> 100, den |-> 3]

\* C31: get_statistics returns the same dictionary (counts, percentages,
\* error-code table) for a list and for each of its permutations, leaves the
\* list it is given as it was, and its table has, for every error code of an
\* INVALID or ERROR result, the number of INVALID or ERROR results with that code.
C31_StatisticsOrderIndependent ==
    /\ [](pure.op = "get_statistics" /\ pure.pc = "again" =>
            /\ pure.out_permuted = pure.out
            /\ \A j \in DOMAIN pure.results :
                  pure.results[j].status \in {INVALID, ERROR} =>
                      LET c == pure.results[j].error_code
                      IN  /\ c \in DOMAIN pure.out.error_codes
                          /\ pure.out.error_codes[c] =
                                Cardinality({i \in DOMAIN pure.results :
                                               /\ pure.results[i].status \in {INVALID, ERROR}
                                               /\ pure.results[i].error_code = c})
            /\ \A c \in DOMAIN pure.out.error_codes :
                  \E j \in DOMAIN pure.results :
                      /\ pure.results[j].status \in {INVALID, ERROR}
                      /\ pure.results[j].error_code = c)
    /\ [][pure.op = "get_statistics" => pure'.results = pure.results]_vars

\* get_statistics has returned the same table, with the codes INVALID_FORMAT
\* and EXCEPTION, for <<VALID, INVALID, ERROR>> and for that list in another order
C31_Witness ==
    /\ pure.op = "get_statistics"
    /\ pure.pc = "again"
    /\ Len(pure.results) = 3
    /\ pure.permuted # pure.results
    /\ pure.results[1].status = VALID
    /\ pure.results[2].error_code = "INVALID_FORMAT"
    /\ pure.results[3].error_code = "EXCEPTION"
    /\ pure.out_permuted.error_codes = pure.out.error_codes
    /\ DOMAIN pure.out.error_codes = {"INVALID_FORMAT", "EXCEPTION"}

\* the result has an outcome for every record of the batch it was made for
Complete(result) ==
    \A i \in DOMAIN batches[result.batch_id].accounts :
        \E r \in DOMAIN result.results :
            result.results[r].account = batches[result.batch_id].accounts[i]

\* C32: a BatchValidationResult whose completed_at is set has an outcome for
\* every record of its batch, and from then on the result, its list of
\* outcomes included, does not change.
C32_SealedOnlyWhenComplete ==
    /\ [](\A j \in DOMAIN batch_results :
            batch_results[j].completed_at # NoTime => Complete(batch_results[j]))
    /\ [][\A j \in DOMAIN batch_results :
            batch_results[j].completed_at # NoTime =>
                j \in DOMAIN batch_results' /\ batch_results'[j] = batch_results[j]]_vars

\* the same, for the runs in which max_batch_size is positive
C32_SealedOnlyWhenCompletePositive ==
    processor.max_batch_size > 0 =>
        \A j \in DOMAIN batch_results :
            batch_results[j].completed_at # NoTime => Complete(batch_results[j])

\* C33: _validate_format returns True exactly for the records whose account
\* number and bank code are both non-empty strings: it returns False when one
\* of them is missing, empty or not a str.
C33_FormatCheckAcceptsExactlyText ==
    (pure.op = "_validate_format" /\ pure.pc = "returned") =>
        (pure.out <=> /\ IsStr(pure.account.account_number)
                      /\ pure.account.account_number # ""
                      /\ IsStr(pure.account.bank_code)
                      /\ pure.account.bank_code # "")

\* the same, for the records whose two fields are None or a str
C33_FormatCheckOnText ==
    (/\ pure.op = "_validate_format" /\ pure.pc = "returned"
     /\ pure.account.account_number \notin {IntZero, IntNumber}
     /\ pure.account.bank_code \notin {IntZero, IntNumber}) =>
        (pure.out <=> ~(pure.account.account_number \in {None, ""})
                      /\ ~(pure.account.bank_code \in {None, ""}))

\* process has returned a list with an outcome for every input record
ReturnedAll ==
    /\ pstate = "returned"
    /\ \A i \in DOMAIN accounts : \E j \in DOMAIN returned : returned[j].account = i

\* C34: when every remote call is answered or times out, process returns with
\* an outcome for every record; no record is sent more than max_retries
\* requests, and process_batch is never more than two calls deep.
C34_ProcessTerminates ==
    /\ [](/\ Len(stack) <= 2
          /\ \A a \in DOMAIN calls : calls[a] <= client.max_retries)
    /\ <>ReturnedAll

\* the same, for the runs with a positive max_batch_size and, in parallel mode,
\* a positive worker count
C34_TerminatesWhenConfigured ==
    (processor.max_batch_size > 0 /\ ~(use_parallel /\ PoolRaises(processor.worker_threads)))
        => <>ReturnedAll

\* C35: a call whose last answer had a 4xx status does not end with a VALID
\* outcome, whatever the body of that answer.
C35_ClientErrorNeverValid ==
    \A k \in DOMAIN task :
        (Finished(k) /\ task[k].resps # <<>> /\ Is4xx(Last(task[k].resps))) =>
            task[k].result.status # VALID

\* the call ended on a 2xx or 4xx answer whose body is a JSON object with "error"
AnsweredWithErrorKey(k) ==
    /\ Finished(k)
    /\ task[k].resps # <<>>
    /\ Last(task[k].resps).kind = "http"
    /\ Last(task[k].resps).status_code < 500
    /\ Last(task[k].resps).body.t = "dict"
    /\ Last(task[k].resps).body.error # None

\* C36: a body with an "error" key gives ERROR with code API_ERROR and the
\* value of "error" as message, whatever its status field; a 4xx answer
\* without content gives ERROR with code API_ERROR and the exception's text.
C36_ErrorKeyTakesPrecedence ==
    \A k \in DOMAIN task :
        /\ AnsweredWithErrorKey(k) =>
              task[k].result =
                  ValidationResult(task[k].account, ERROR, None, None, "API_ERROR",
                                   Last(task[k].resps).body.error)
        /\ (/\ Finished(k) /\ task[k].resps # <<>>
            /\ Is4xx(Last(task[k].resps))
            /\ Last(task[k].resps).body.t = "empty") =>
              task[k].result =
                  ValidationResult(task[k].account, ERROR, None, None, "API_ERROR",
                                   "HTTPError")

\* a 200 answer with "error" and status "Valid" has ended the call with ERROR
C36_Witness ==
    \E k \in DOMAIN task :
        /\ AnsweredWithErrorKey(k)
        /\ Last(task[k].resps) = Resp("http", 200, ErrorValidBody)
        /\ task[k].result.status = ERROR
        /\ task[k].result.error_code = "API_ERROR"
        /\ task[k].result.error_message = "Invalid API key"

\* the sub-batches Batch.split made, in the order of its list
Chunks == 2..Len(batches)

\* record a is one of the records of batch b
InBatch(a, b) == \E i \in DOMAIN batches[b].accounts : batches[b].accounts[i] = a

\* process_batch has returned for batch b with an outcome for each of its records
Done(b) ==
    \E j \in DOMAIN batch_results :
        /\ batch_results[j].batch_id = b
        /\ batch_results[j].completed_at # NoTime
        /\ Complete(batch_results[j])

\* C37: a call of validate_single (and so a sub-batch's pre-check before it)
\* exists for a record of a chunk only when process_batch has returned, with an
\* outcome for every record, for every chunk before it; and in the list the
\* split process_batch returns, the outcomes of an earlier chunk come before
\* those of a later chunk.
C37_ChunksOneAfterAnother ==
    /\ \A b1, b2 \in Chunks :
          b1 < b2 =>
              /\ (\E k \in DOMAIN task : InBatch(task[k].account, b2)) => Done(b1)
              /\ (\E j \in DOMAIN batch_results : batch_results[j].batch_id = b2)
                    => Done(b1)
    /\ (pstate = "returned" /\ Chunks # {}) =>
          \A i, j \in DOMAIN returned :
              \A b1, b2 \in Chunks :
                  (/\ b1 < b2
                   /\ InBatch(returned[i].account, b1)
                   /\ InBatch(returned[j].account, b2)) => i < j

\* a list of two well-formed records was split into two chunks, validated in
\* parallel mode, and process has returned their two outcomes
C37_Witness ==
    /\ pstate = "returned"
    /\ use_parallel
    /\ Len(batches) = 3
    /\ Len(returned) = 2
    /\ \E k1, k2 \in DOMAIN task :
          /\ task[k1].call = 1 /\ task[k1].account = 1
          /\ task[k2].call = 2 /\ task[k2].account = 2
          /\ Len(task[k1].resps) = 3
    /\ returned[1].account = 1
    /\ returned[2].account = 2

\* a step in which the credential is left alone and no fetch is issued once
\* api_key is set, and in which a fetch that fails leaves api_key as it was
KeyStepWriteOnce ==
    /\ ~Falsy(client.api_key) =>
          /\ client'.api_key = client.api_key
          /\ fetches' = fetches
    /\ \A k \in DOMAIN task :
          (/\ task[k].pc = "fetch"
           /\ k \in DOMAIN task'
           /\ task'[k].pc = "done"
           /\ FromFailedFetch(task'[k].result)) => client'.api_key = client.api_key

\* C38: once api_key holds a non-empty value it is not assigned again and no
\* fetch request is issued; a fetch that fails leaves api_key unset, and a call
\* sends its validation request only with api_key set, so that the call after a
\* failed fetch fetches again.
C38_CredentialWriteOnce ==
    /\ [][KeyStepWriteOnce]_vars
    /\ [](\A k \in DOMAIN task :
            task[k].pc \in {"request", "sleep"} => ~Falsy(client.api_key))

\* the same, for the runs in which validate_batch is sequential
C38_WriteOnceSequential ==
    /\ [][~use_parallel => KeyStepWriteOnce]_vars
    /\ [](\A k \in DOMAIN task :
            task[k].pc \in {"request", "sleep"} => ~Falsy(client.api_key))

\* batch b is not split by process_batch
IsLeaf(b) == ~(batches[b].total_accounts > processor.max_batch_size)

\* C40: a batch has status "processed" exactly when it has a processed
\* timestamp, and only a batch that was not split has; it is marked in the
\* step in which every call for its records has been collected, before its
\* result, which has an outcome for each of its records, is marked completed,
\* and it is not marked again. When process returns every batch that was not
\* split is processed, and a batch that was split is pending without timestamp.
C40_ProcessedExactlyLeaves ==
    /\ [](\A b \in DOMAIN batches :
            /\ batches[b].status = "processed" <=> batches[b].processed_at # NoTime
            /\ batches[b].status \in {"pending", "processed"}
            /\ batches[b].status = "processed" =>
                  /\ IsLeaf(b)
                  /\ \E j \in DOMAIN batch_results :
                        /\ batch_results[j].batch_id = b
                        /\ Complete(batch_results[j])
                        /\ batch_results[j].completed_at > batches[b].processed_at
                  /\ \A k \in DOMAIN task :
                        InBatch(task[k].account, b) => task[k].pc = "collected"
            /\ pstate = "returned" =>
                  /\ IsLeaf(b) => batches[b].status = "processed"
                  /\ ~IsLeaf(b) => /\ batches[b].status = "pending"
                                    /\ batches[b].processed_at = NoTime)
    /\ [][\A b \in DOMAIN batches :
            /\ batches[b].status = "processed" =>
                  b \in DOMAIN batches' /\ batches'[b] = batches[b]
            /\ (/\ batches[b].status = "pending"
                /\ b \in DOMAIN batches'
                /\ batches'[b].status = "processed") =>
                  /\ vb.active /\ AllCollected
                  /\ \A j \in DOMAIN batch_results :
                        batch_results[j].batch_id = b =>
                            batch_results[j].completed_at = NoTime]_vars

\* process has returned after a split into two chunks: the chunks are
\* processed, each before its result was completed, and the split batch is
\* pending
C40_Witness ==
    /\ pstate = "returned"
    /\ Len(batches) = 3
    /\ Len(returned) = 2
    /\ batches[1].status = "pending" /\ batches[1].processed_at = NoTime
    /\ batches[2].status = "processed"
    /\ batches[3].status = "processed"
    /\ batches[2].processed_at < batches[3].processed_at
    /\ \E k \in DOMAIN task : task[k].account = 2 /\ task[k].pc = "collected"

\* the capital of a lower-case letter
Capital(c) == UpperCase[CHOOSE u \in 1..Len(LowerCase) : LowerCase[u] = c]

\* the message holds the lower-case word, in whichever case its letters are
Mentions(word, message) ==
    LET w  == Chars(word)
        cs == Chars(message)
    IN  \E i \in 0..(Len(cs) - Len(w)) :
            \A j \in 1..Len(w) : cs[i + j] \in {w[j], Capital(w[j])}

\* the reference mapping from status code and message to error code
ReferenceCode(status_code, message) ==
    CASE status_code = 400 -> "INVALID_REQUEST"
      [] status_code = 404 /\ Mentions("account", message) -> "ACCOUNT_NOT_FOUND"
      [] status_code = 404 /\ ~Mentions("account", message) /\ Mentions("bank", message) ->
           "BANK_NOT_FOUND"
      [] status_code = 404 /\ ~Mentions("account", message) /\ ~Mentions("bank", message) ->
           "INVALID_ACCOUNT"
      [] status_code \in {401, 403} -> "AUTHENTICATION_ERROR"
      [] status_code = 429 -> "RATE_LIMIT_ERROR"
      [] status_code >= 500 -> "API_ERROR"
      [] OTHER -> "UNKNOWN_ERROR"

\* C14: for every status code and message, map_pesalink_error returns the code
\* of the reference mapping: 400 INVALID_REQUEST; 404 ACCOUNT_NOT_FOUND when the
\* message mentions "account" in any case, else BANK_NOT_FOUND when it mentions
\* "bank", else INVALID_ACCOUNT; 401 and 403 AUTHENTICATION_ERROR; 429
\* RATE_LIMIT_ERROR; 500 and above API_ERROR; any other status UNKNOWN_ERROR.
C14_MapMatchesReference ==
    pure.op = "map_pesalink_error" /\ pure.pc = "returned" =>
        /\ pure.out = ReferenceCode(pure.status_code, pure.message)
        /\ pure.out \in ErrorCode

\* a 404 whose message names the bank in capitals was mapped to BANK_NOT_FOUND
C14_Witness ==
    /\ pure.op = "map_pesalink_error"
    /\ pure.pc = "returned"
    /\ pure.status_code = 404
    /\ pure.message = "Unknown BANK"
    /\ pure.out = "BANK_NOT_FOUND"

\* the record sequences of a list of batches, one after the other
RECURSIVE ConcatAccounts(_)
ConcatAccounts(bs) ==
    IF bs = <<>> THEN <<>> ELSE Head(bs).accounts \o ConcatAccounts(Tail(bs))

\* Batch.split has returned on a batch with more than max_size records
SplitOfLarge ==
    /\ pure.op = "split"
    /\ pure.pc = "returned"
    /\ pure.max_size >= 1
    /\ Len(pure.batch.accounts) > pure.max_size

\* C19: Batch.split of n > max_size >= 1 records returns ceil(n / max_size)
\* chunks of 1 to max_size records each, whose record sequences in list order
\* make up the parent's; every chunk has an identifier that is neither the
\* parent's nor another chunk's, and the parent's metadata.
C19_SplitPartitionsInOrder ==
    SplitOfLarge =>
        LET n   == Len(pure.batch.accounts)
            out == pure.out
        IN  /\ Len(out) * pure.max_size >= n
            /\ (Len(out) - 1) * pure.max_size < n
            /\ \A j \in DOMAIN out :
                  /\ Len(out[j].accounts) \in 1..pure.max_size
                  /\ out[j].batch_id # pure.batch.batch_id
                  /\ out[j].metadata = pure.batch.metadata
                  /\ \A i \in DOMAIN out : i # j => out[i].batch_id # out[j].batch_id
            /\ ConcatAccounts(out) = pure.batch.accounts

\* five records were split by two: three chunks, the last of one record
C19_Witness ==
    /\ SplitOfLarge
    /\ Len(pure.batch.accounts) = 5
    /\ pure.max_size = 2
    /\ Len(pure.out) = 3
    /\ pure.out[3].accounts = <<5>>
    /\ pure.batch.metadata # NoMetadata

\* C20: Batch.split of a batch with at most max_size records returns the list
\* of that one batch, the same object, and so every chunk of a split that is
\* split again with the same max_size comes back as it is.
C20_SplitOfSmallIsNoOp ==
    pure.op = "split" /\ pure.pc = "returned" =>
        /\ Len(pure.batch.accounts) <= pure.max_size => pure.out = <<pure.batch>>
        /\ \A j \in DOMAIN pure.again : pure.again[j] = <<pure.out[j]>>

\* each of the three chunks of a split was split again
C20_Witness ==
    /\ pure.op = "split"
    /\ pure.pc = "returned"
    /\ Len(pure.out) = 3
    /\ Len(pure.again) = 3
    /\ pure.again[3] = <<pure.out[3]>>

\* C39: Batch.split of a batch that has records, with any integer max_size,
\* either raises or returns batches whose record sequences, one after the
\* other, are the records of the batch.
C39_SplitNeverDropsRecords ==
    (/\ pure.op = "split"
     /\ pure.pc \in {"returned", "raised"}
     /\ pure.batch.accounts # <<>>) =>
        \/ pure.pc = "raised"
        \/ ConcatAccounts(pure.out) = pure.batch.accounts

\* the same, for max_size >= 0
C39_SplitKeepsRecordsNonNegative ==
    (/\ pure.op = "split"
     /\ pure.pc \in {"returned", "raised"}
     /\ pure.max_size >= 0
     /\ pure.batch.accounts # <<>>) =>
        \/ pure.pc = "raised" /\ pure.max_size = 0
        \/ ConcatAccounts(pure.out) = pure.batch.accounts

====
